---- MODULE Spec2Model ----
(***************************************************************************)
(* The tic-tac-toe server: the registry of games, the WebSocket handler of *)
(* each connection, makeMove and the broadcast, in the two builds the      *)
(* repository holds:                                                       *)
(*   "backend"  - src/backend/main.go                                      *)
(*   "part_000" - src/unnamed/part_000 (handleWebSocket checks the game,   *)
(*                broadcastGameState takes mu.RLock, removeConnection      *)
(*                closes the connection)                                   *)
(* and the mark the front end (src/frontend/src/components/TicTacToe.tsx)  *)
(* gives the player behind a connection.                                   *)
(*                                                                         *)
(* Go values: a *Game is an index into heap (0 is nil); a Game the program *)
(* holds no pointer to is collected, and leaves DOMAIN heap. A connection  *)
(* slot in pc "idle" is a connection that does not exist yet.              *)
(***************************************************************************)
EXTENDS Integers, Sequences, FiniteSets, TLC

\* ---- bounds of the model
NumConns == 2
NumIDs == 2
MaxCreates == 2
MaxPos == 1
FanPos == 4
FanCreates == 1

\* ---- program constants
BoardSize == 9

\* net/http's StatusOK and StatusNotFound
StatusOK == 200
StatusNotFound == 404

Conns == 1..NumConns
GameIDs == 1..NumIDs
Cells == 0..(BoardSize - 1)
Marks == {"X", "O"}
\* Move.Symbol is any string the peer sends; "" is an absent field.
Symbols == {"X", "O", ""}
\* Move.Position as sent by a peer: both sides of the range and the cells
\* up to MaxPos.
Positions == {-1, BoardSize} \cup {p \in Cells : p <= MaxPos}
AllPositions == -1..BoardSize
Builds == {"backend", "part_000"}

VARIABLES
    build,        \* which main.go runs
    games,        \* games: gameID -> *Game (0: no entry)
    heap,         \* the Game objects the program can still reach
    nalloc,       \* the number of Games allocated so far
    connections,  \* connections: gameID -> []*websocket.Conn
    mu,           \* mu: 0, or the connection whose handler holds mu.Lock
    pc,           \* where each connection's handler stands
    gid,          \* handleWebSocket's gameID
    game,         \* handleWebSocket's game (a *Game, 0 when nil or dead)
    mark,         \* the front end's playerSymbol behind the connection
    move,         \* the Move being handled
    bi,           \* broadcastGameState's loop index
    mt,           \* broadcastGameState's messageType
    sent,         \* per connection: the last message written to it, and the
                  \* parity of the number of WriteJSON calls made on it
    probe,        \* the input of the rule functions (SpecRules only)
    verdict,      \* their result (SpecRules only)
    closed,       \* the connections whose peer has gone: a write to them fails
    resp          \* the last answer of handleJoinGame

vars == <<build, games, heap, nalloc, connections, mu, pc, gid, game, mark,
          move, bi, mt, sent, probe, verdict, closed, resp>>

\* ---- values
EmptyBoard == [i \in Cells |-> ""]
\* NewGame with "O" to move first.
NewGame_O == [Board |-> EmptyBoard, NextPlayer |-> "O", GameOver |-> FALSE, Winner |-> ""]
NewGame == [Board |-> EmptyBoard, NextPlayer |-> "X", GameOver |-> FALSE, Winner |-> ""]
NoMove == [Type |-> "", Position |-> 0, Symbol |-> ""]
NoMsg == [type |-> "none"]
NullMsg == [type |-> "null"]
NoSent == [n |-> 0, last |-> NoMsg]
NoProbe == [Board |-> EmptyBoard, Position |-> 0, Symbol |-> ""]
NoVerdict == [set |-> FALSE]
NoResp == [n |-> 0, id |-> 0, code |-> 0]

\* ---- the rule functions
winPatterns ==
    << <<0, 1, 2>>, <<3, 4, 5>>, <<6, 7, 8>>,
       <<0, 3, 6>>, <<1, 4, 7>>, <<2, 5, 8>>,
       <<0, 4, 8>>, <<2, 4, 6>> >>

\* checkWin without the last pattern.
checkWin_short(board) ==
    \E i \in 1..(Len(winPatterns) - 1) :
        LET pattern == winPatterns[i] IN
            /\ board[pattern[1]] # ""
            /\ board[pattern[1]] = board[pattern[2]]
            /\ board[pattern[2]] = board[pattern[3]]

checkWin(board) ==
    \E i \in 1..Len(winPatterns) :
        LET pattern == winPatterns[i] IN
            /\ board[pattern[1]] # ""
            /\ board[pattern[1]] = board[pattern[2]]
            /\ board[pattern[2]] = board[pattern[3]]

checkDraw(board) == \A i \in DOMAIN board : board[i] # ""

\* nextPlayer with both branches returning "X".
nextPlayer_stuck(currentPlayer) == "X"

nextPlayer(currentPlayer) == IF currentPlayer = "X" THEN "O" ELSE "X"

\* rejects without the test of the turn.
rejects_turn(h, g, position, symbol) ==
    \/ g = 0
    \/ h[g].GameOver
    \/ position < 0
    \/ position >= BoardSize
    \/ h[g].Board[position] # ""

\* rejects without the test of GameOver.
rejects_over(h, g, position, symbol) ==
    \/ g = 0
    \/ position < 0
    \/ position >= BoardSize
    \/ h[g].Board[position] # ""
    \/ symbol # h[g].NextPlayer

\* rejects without the test of the cell.
rejects_occupied(h, g, position, symbol) ==
    \/ g = 0
    \/ h[g].GameOver
    \/ position < 0
    \/ position >= BoardSize
    \/ symbol # h[g].NextPlayer

\* makeMove's guard, with games[gameID] = g in the heap h: TRUE when the move
\* is dropped.
rejects(h, g, position, symbol) ==
    \/ g = 0
    \/ h[g].GameOver
    \/ position < 0
    \/ position >= BoardSize
    \/ h[g].Board[position] # ""
    \/ symbol # h[g].NextPlayer

\* ---- messages written to a connection
\* conn.WriteJSON(game): the Game struct, or null for a nil game.
snapshotMsg(g) ==
    IF g = 0 THEN NullMsg
    ELSE [type |-> "", board |-> heap[g].Board, nextPlayer |-> heap[g].NextPlayer,
          gameOver |-> heap[g].GameOver, winner |-> heap[g].Winner]

broadcastMsg(g, messageType) ==
    [type |-> messageType, board |-> heap[g].Board, nextPlayer |-> heap[g].NextPlayer,
     gameOver |-> heap[g].GameOver, winner |-> heap[g].Winner]

\* One conn.WriteJSON(m) on connection c: every call changes sent[c].n, and
\* the call on a connection whose peer has gone returns an error and writes
\* nothing.
WriteJSON(s, c, m) ==
    [s EXCEPT ![c] = [n |-> (s[c].n + 1) % 2, last |-> IF c \in closed THEN s[c].last ELSE m]]

\* ---- the heap
\* The Games still referenced by the registry gs or by a handler's local ls.
live(h, gs, ls) ==
    [o \in {x \in DOMAIN h : (\E id \in GameIDs : gs[id] = x) \/ (\E c \in Conns : ls[c] = x)}
        |-> h[o]]

\* removeFirst dropping the head of the list, whichever connection it is.
removeFirst_head(conns, c) == IF Len(conns) = 0 THEN conns ELSE Tail(conns)

\* append(conns[:i], conns[i+1:]...) for the first i with conns[i] = c.
removeFirst(conns, c) ==
    IF \E i \in 1..Len(conns) : conns[i] = c
    THEN LET i == CHOOSE j \in 1..Len(conns) :
                    conns[j] = c /\ \A k \in 1..(j - 1) : conns[k] # c
         IN  SubSeq(conns, 1, i - 1) \o SubSeq(conns, i + 1, Len(conns))
    ELSE conns

InitServer ==
    /\ build \in Builds
    /\ games = [id \in GameIDs |-> 0]
    /\ heap = << >>
    /\ nalloc = 0
    /\ connections = [id \in GameIDs |-> << >>]
    /\ mu = 0
    /\ pc = [c \in Conns |-> "idle"]
    /\ gid = [c \in Conns |-> 0]
    /\ game = [c \in Conns |-> 0]
    /\ mark = [c \in Conns |-> ""]
    /\ move = [c \in Conns |-> NoMove]
    /\ bi = [c \in Conns |-> 0]
    /\ mt = [c \in Conns |-> ""]
    /\ sent = [c \in Conns |-> NoSent]
    /\ closed = {}
    /\ resp = NoResp

Init ==
    /\ InitServer
    /\ probe = NoProbe
    /\ verdict = NoVerdict

\* ---- POST /game/create
\* handleCreateGame with generateGameID returning id: "game_" and six random
\* characters, here one of GameIDs. The Game the entry held before, if any,
\* is no longer referenced by the registry.
createGame(id) ==
    /\ mu = 0
    /\ nalloc < MaxCreates
    /\ nalloc' = nalloc + 1
    /\ games' = [games EXCEPT ![id] = nalloc + 1]
    /\ heap' = live(heap @@ ((nalloc + 1) :> NewGame), games', game)

\* POST /game/create from any HTTP client.
handleCreateGame(id) ==
    /\ createGame(id)
    /\ UNCHANGED <<build, connections, mu, pc, gid, game, mark, move, bi, mt, sent,
                   probe, verdict, closed, resp>>

\* ---- POST /game/join/{id}
\* handleJoinGame answering 200 whatever the id.
handleJoinGame_ok(id) ==
    /\ mu = 0
    /\ resp' = [n |-> (resp.n + 1) % 2, id |-> id, code |-> StatusOK]
    /\ UNCHANGED <<build, games, heap, nalloc, connections, mu, pc, gid, game, mark,
                   move, bi, mt, sent, probe, verdict, closed>>

\* handleJoinGame from any HTTP client: the lookup under mu.RLock, then 404
\* or 200. resp.n changes with every answer.
handleJoinGame(id) ==
    /\ mu = 0
    /\ resp' = [n |-> (resp.n + 1) % 2, id |-> id,
                code |-> IF games[id] # 0 THEN StatusOK ELSE StatusNotFound]
    /\ UNCHANGED <<build, games, heap, nalloc, connections, mu, pc, gid, game, mark,
                   move, bi, mt, sent, probe, verdict, closed>>

\* ---- the front end's setupGame
\* Without ?game=: create a game, play "X", open the WebSocket for its id.
setupGameCreate(c, id) ==
    /\ pc[c] = "idle"
    /\ createGame(id)
    /\ mark' = [mark EXCEPT ![c] = "X"]
    /\ gid' = [gid EXCEPT ![c] = id]
    /\ pc' = [pc EXCEPT ![c] = "ws_open"]
    /\ UNCHANGED <<build, connections, mu, game, move, bi, mt, sent, probe, verdict, closed, resp>>

\* With ?game=id: POST /game/join/id (handleJoinGame); on 200 play "O" and
\* open the WebSocket. On 404 the front end does nothing.
setupGameJoin(c, id) ==
    /\ pc[c] = "idle"
    /\ mu = 0
    /\ games[id] # 0
    /\ mark' = [mark EXCEPT ![c] = "O"]
    /\ gid' = [gid EXCEPT ![c] = id]
    /\ pc' = [pc EXCEPT ![c] = "ws_open"]
    /\ UNCHANGED <<build, games, heap, nalloc, connections, mu, game, move, bi, mt,
                   sent, probe, verdict, closed, resp>>

\* ---- GET /ws/{id}
\* Any peer dials /ws/id, whatever id is; it has no front-end mark.
wsDial(c, id) ==
    /\ pc[c] = "idle"
    /\ gid' = [gid EXCEPT ![c] = id]
    /\ pc' = [pc EXCEPT ![c] = "ws_open"]
    /\ UNCHANGED <<build, games, heap, nalloc, connections, mu, game, mark, move, bi,
                   mt, sent, probe, verdict, closed, resp>>

\* part_000 only: the lookup under mu.RLock before the upgrade; 404 and
\* return when the registry has no entry.
handleWebSocketCheck(c) ==
    /\ build = "part_000"
    /\ pc[c] = "ws_open"
    /\ mu = 0
    /\ IF games[gid[c]] # 0
       THEN /\ game' = [game EXCEPT ![c] = games[gid[c]]]
            /\ pc' = [pc EXCEPT ![c] = "ws_upgraded"]
            /\ UNCHANGED <<gid, mark>>
       ELSE /\ pc' = [pc EXCEPT ![c] = "idle"]
            /\ gid' = [gid EXCEPT ![c] = 0]
            /\ mark' = [mark EXCEPT ![c] = ""]
            /\ UNCHANGED game
    /\ UNCHANGED <<build, games, heap, nalloc, connections, mu, move, bi, mt, sent,
                   probe, verdict, closed, resp>>

\* The upgraded connection is appended to connections[gameID] under mu.Lock;
\* backend reads games[gameID] in the same section, with no check.
handleWebSocketAttach(c) ==
    /\ mu = 0
    /\ IF build = "backend"
       THEN /\ pc[c] = "ws_open"
            /\ game' = [game EXCEPT ![c] = games[gid[c]]]
       ELSE /\ pc[c] = "ws_upgraded"
            /\ UNCHANGED game
    /\ connections' = [connections EXCEPT ![gid[c]] = Append(@, c)]
    /\ pc' = [pc EXCEPT ![c] = "ws_snap"]
    /\ UNCHANGED <<build, games, heap, nalloc, mu, gid, mark, move, bi, mt, sent,
                   probe, verdict, closed, resp>>

\* conn.WriteJSON(game), outside mu. backend ignores the result; part_000
\* removes the connection and returns when the write fails (ok = FALSE).
handleWebSocketSnapshot(c, ok) ==
    /\ pc[c] = "ws_snap"
    /\ build = "backend" => ok
    /\ sent' = WriteJSON(sent, c, snapshotMsg(game[c]))
    /\ game' = [game EXCEPT ![c] = 0]
    /\ heap' = live(heap, games, game')
    /\ pc' = [pc EXCEPT ![c] = IF ok THEN "read" ELSE "remove"]
    /\ UNCHANGED <<build, games, nalloc, connections, mu, gid, mark, move, bi, mt,
                   probe, verdict, closed, resp>>

\* conn.ReadJSON fails: the peer closed, the transport broke, or the payload
\* is not a Move.
readError(c) ==
    /\ pc[c] = "read"
    /\ pc' = [pc EXCEPT ![c] = "remove"]
    /\ UNCHANGED <<build, games, heap, nalloc, connections, mu, gid, game, mark, move,
                   bi, mt, sent, probe, verdict, closed, resp>>

\* conn.ReadJSON returns a message whose type is not "MOVE" ...
readOther(c) ==
    /\ pc[c] = "read"
    /\ move' = [move EXCEPT ![c] = [NoMove EXCEPT !.Type = "OTHER"]]
    /\ pc' = [pc EXCEPT ![c] = "dispatch"]
    /\ UNCHANGED <<build, games, heap, nalloc, connections, mu, gid, game, mark, bi,
                   mt, sent, probe, verdict, closed, resp>>

\* ... and the loop goes on to the next read.
skipOther(c) ==
    /\ pc[c] = "dispatch"
    /\ move' = [move EXCEPT ![c] = NoMove]
    /\ pc' = [pc EXCEPT ![c] = "read"]
    /\ UNCHANGED <<build, games, heap, nalloc, connections, mu, gid, game, mark, bi,
                   mt, sent, probe, verdict, closed, resp>>

\* ---- makeMove
\* makeMoveLock entering without waiting for mu.
makeMoveLock_free(c, position, symbol) ==
    /\ pc[c] = "read"
    /\ mu' = c
    /\ IF rejects(heap, games[gid[c]], position, symbol)
       THEN /\ pc' = [pc EXCEPT ![c] = "mm_return"]
            /\ UNCHANGED move
       ELSE /\ pc' = [pc EXCEPT ![c] = "mm_set"]
            /\ move' = [move EXCEPT ![c] =
                          [Type |-> "MOVE", Position |-> position, Symbol |-> symbol]]
    /\ UNCHANGED <<build, games, heap, nalloc, connections, gid, game, mark, bi, mt,
                   sent, probe, verdict, closed, resp>>

\* conn.ReadJSON returns a MOVE and makeMove takes mu.Lock and evaluates its
\* guard. (The handler that has read the message and waits for mu stands in
\* "read": what the peer sent does not depend on the state. A dropped move
\* is not used again, and is not kept.)
makeMoveLock(c, position, symbol) ==
    /\ pc[c] = "read"
    /\ mu = 0
    /\ mu' = c
    /\ IF rejects(heap, games[gid[c]], position, symbol)
       THEN /\ pc' = [pc EXCEPT ![c] = "mm_return"]
            /\ UNCHANGED move
       ELSE /\ pc' = [pc EXCEPT ![c] = "mm_set"]
            /\ move' = [move EXCEPT ![c] =
                          [Type |-> "MOVE", Position |-> position, Symbol |-> symbol]]
    /\ UNCHANGED <<build, games, heap, nalloc, connections, gid, game, mark, bi, mt,
                   sent, probe, verdict, closed, resp>>

\* game.Board[position] = symbol; game.NextPlayer = nextPlayer(symbol)
setCell(G, position, symbol) ==
    [G EXCEPT !.Board[position] = symbol, !.NextPlayer = nextPlayer(symbol)]

makeMoveSet(c) ==
    /\ pc[c] = "mm_set"
    /\ LET g == games[gid[c]] IN
        heap' = [heap EXCEPT ![g] = setCell(@, move[c].Position, move[c].Symbol)]
    /\ pc' = [pc EXCEPT ![c] = "mm_eval"]
    /\ UNCHANGED <<build, games, nalloc, connections, mu, gid, game, mark, move, bi,
                   mt, sent, probe, verdict, closed, resp>>

\* evaluate with the draw tested before the win.
evaluate_drawFirst(G, symbol) ==
    IF checkDraw(G.Board)
    THEN [game |-> [G EXCEPT !.GameOver = TRUE], type |-> "GAME_OVER"]
    ELSE IF checkWin(G.Board)
         THEN [game |-> [G EXCEPT !.GameOver = TRUE, !.Winner = symbol], type |-> "GAME_OVER"]
         ELSE [game |-> G, type |-> "MOVE"]

\* evaluate leaving Winner empty on a win.
evaluate_noWinner(G, symbol) ==
    IF checkWin(G.Board)
    THEN [game |-> [G EXCEPT !.GameOver = TRUE], type |-> "GAME_OVER"]
    ELSE IF checkDraw(G.Board)
         THEN [game |-> [G EXCEPT !.GameOver = TRUE], type |-> "GAME_OVER"]
         ELSE [game |-> G, type |-> "MOVE"]

\* The if/else-if/else that follows: the Game as it leaves it and the type
\* of the message to broadcast.
evaluate(G, symbol) ==
    IF checkWin(G.Board)
    THEN [game |-> [G EXCEPT !.GameOver = TRUE, !.Winner = symbol], type |-> "GAME_OVER"]
    ELSE IF checkDraw(G.Board)
         THEN [game |-> [G EXCEPT !.GameOver = TRUE], type |-> "GAME_OVER"]
         ELSE [game |-> G, type |-> "MOVE"]

\* ... and the entry into broadcastGameState: backend starts its loop over
\* connections[gameID]; part_000 calls mu.RLock while this handler holds
\* mu.Lock, and waits there.
makeMoveEval(c) ==
    /\ pc[c] = "mm_eval"
    /\ LET g == games[gid[c]]
           r == evaluate(heap[g], move[c].Symbol)
       IN  /\ heap' = [heap EXCEPT ![g] = r.game]
           /\ mt' = [mt EXCEPT ![c] = r.type]
    /\ IF build = "part_000"
       THEN /\ pc' = [pc EXCEPT ![c] = "bc_rlock"]
            /\ UNCHANGED bi
       ELSE IF Len(connections[gid[c]]) = 0
            THEN /\ pc' = [pc EXCEPT ![c] = "mm_return"]
                 /\ UNCHANGED bi
            ELSE /\ pc' = [pc EXCEPT ![c] = "bcast"]
                 /\ bi' = [bi EXCEPT ![c] = 1]
    /\ UNCHANGED <<build, games, nalloc, connections, mu, gid, game, mark, move, sent,
                   probe, verdict, closed, resp>>

\* sync.RWMutex: RLock waits while a writer holds the lock, the caller's own
\* Lock included.
RLockReady == mu = 0

\* broadcastSend leaving the loop after its first turn.
broadcastSend_first(c) ==
    /\ pc[c] = "bcast"
    /\ LET conns == connections[gid[c]]
           g == games[gid[c]]
       IN  sent' = WriteJSON(sent, conns[bi[c]], broadcastMsg(g, mt[c]))
    /\ pc' = [pc EXCEPT ![c] = "mm_return"]
    /\ bi' = [bi EXCEPT ![c] = 0]
    /\ UNCHANGED <<build, games, heap, nalloc, connections, mu, gid, game, mark, move,
                   mt, probe, verdict, closed, resp>>

\* backend: one turn of the loop, conn.WriteJSON on the next connection of
\* connections[gameID], still under makeMove's mu.Lock; the result is ignored.
broadcastSend(c) ==
    /\ pc[c] = "bcast"
    /\ LET conns == connections[gid[c]]
           g == games[gid[c]]
       IN  /\ sent' = WriteJSON(sent, conns[bi[c]], broadcastMsg(g, mt[c]))
           /\ IF bi[c] = Len(conns)
              THEN /\ pc' = [pc EXCEPT ![c] = "mm_return"]
                   /\ bi' = [bi EXCEPT ![c] = 0]
              ELSE /\ bi' = [bi EXCEPT ![c] = bi[c] + 1]
                   /\ UNCHANGED pc
    /\ UNCHANGED <<build, games, heap, nalloc, connections, mu, gid, game, mark, move,
                   mt, probe, verdict, closed, resp>>

\* makeMove returns: the deferred mu.Unlock, and the handler reads again.
makeMoveReturn(c) ==
    /\ pc[c] = "mm_return"
    /\ mu' = 0
    /\ move' = [move EXCEPT ![c] = NoMove]
    /\ mt' = [mt EXCEPT ![c] = ""]
    /\ pc' = [pc EXCEPT ![c] = "read"]
    /\ UNCHANGED <<build, games, heap, nalloc, connections, gid, game, mark, bi, sent,
                   probe, verdict, closed, resp>>

\* ---- the handler's loop on a message
\* The Move values a peer sends: gameId is any game id, or absent.
Moves ==
    [Type : {"MOVE", "OTHER"}, Position : Positions, Symbol : Symbols,
     GameID : GameIDs \cup {0}]

\* handleMessage taking makeMove's gameID from the payload when it has one.
handleMessage_payload(c, m) ==
    IF m.Type = "MOVE"
    THEN /\ pc[c] = "read"
         /\ mu = 0
         /\ mu' = c
         /\ gid' = [gid EXCEPT ![c] = IF m.GameID # 0 THEN m.GameID ELSE gid[c]]
         /\ IF rejects(heap, games[gid'[c]], m.Position, m.Symbol)
            THEN /\ pc' = [pc EXCEPT ![c] = "mm_return"]
                 /\ UNCHANGED move
            ELSE /\ pc' = [pc EXCEPT ![c] = "mm_set"]
                 /\ move' = [move EXCEPT ![c] =
                               [Type |-> "MOVE", Position |-> m.Position,
                                Symbol |-> m.Symbol]]
         /\ UNCHANGED <<build, games, heap, nalloc, connections, game, mark, bi, mt,
                        sent, probe, verdict, closed, resp>>
    ELSE readOther(c)

\* conn.ReadJSON(&move) returns m: makeMove(gameID, move.Position,
\* move.Symbol) with the gameID of the URL when move.Type is "MOVE", the next
\* read otherwise. move.GameID is not read.
handleMessage(c, m) ==
    IF m.Type = "MOVE"
    THEN makeMoveLock(c, m.Position, m.Symbol)
    ELSE readOther(c)

\* ---- removeConnection(gameID, conn), then the handler returns
removeConnection(c) ==
    /\ pc[c] = "remove"
    /\ mu = 0
    /\ connections' = [connections EXCEPT ![gid[c]] = removeFirst(@, c)]
    /\ pc' = [pc EXCEPT ![c] = "idle"]
    /\ gid' = [gid EXCEPT ![c] = 0]
    /\ mark' = [mark EXCEPT ![c] = ""]
    /\ sent' = [sent EXCEPT ![c] = NoSent]
    /\ closed' = closed \ {c}
    /\ UNCHANGED <<build, games, heap, nalloc, mu, game, move, bi, mt, probe, verdict, resp>>

\* ---- the peer
\* The peer of an upgraded connection goes away (closed tab, lost network,
\* half-closed socket): from then on a write to the connection fails.
peerClose(c) ==
    /\ pc[c] \notin {"idle", "ws_open", "ws_upgraded"}
    /\ c \notin closed
    /\ closed' = closed \cup {c}
    /\ UNCHANGED <<build, games, heap, nalloc, connections, mu, pc, gid, game, mark,
                   move, bi, mt, sent, probe, verdict, resp>>

\* ---- the specifications
\* The server, for the connections C, the positions P, the game ids I and at
\* most K POST /game/create.
Server(C, P, I, K) ==
    \/ \E id \in I : nalloc < K /\ handleCreateGame(id)
    \/ \E c \in C, id \in I : wsDial(c, id)
    \/ \E c \in C : handleWebSocketCheck(c)
    \/ \E c \in C : handleWebSocketAttach(c)
    \/ \E c \in C, ok \in BOOLEAN : handleWebSocketSnapshot(c, ok)
    \/ \E c \in C : readError(c)
    \/ \E c \in C : readOther(c)
    \/ \E c \in C : skipOther(c)
    \/ \E c \in C, p \in P, s \in Symbols : makeMoveLock(c, p, s)
    \/ \E c \in C : makeMoveSet(c)
    \/ \E c \in C : makeMoveEval(c)
    \/ \E c \in C : broadcastSend(c)
    \/ \E c \in C : makeMoveReturn(c)
    \/ \E c \in C : removeConnection(c)

\* The front end behind the connections C, with at most K Games created.
FrontEnd(C, I, K) ==
    \/ \E c \in C, id \in I : nalloc < K /\ setupGameCreate(c, id)
    \/ \E c \in C, id \in I : setupGameJoin(c, id)

\* Server and front ends, every connection and game id, the cells up to MaxPos.
Next == Server(Conns, Positions, GameIDs, MaxCreates) \/ FrontEnd(Conns, GameIDs, MaxCreates)
Spec == Init /\ [][Next]_vars

\* One connection and one game id, every position: a game played to its end.
PlayConns == {1}
PlayIDs == {1}
NextPlay == Server(PlayConns, AllPositions, PlayIDs, MaxCreates)
SpecPlay == Init /\ [][NextPlay]_vars

\* Every connection on one game id created FanCreates times, the cells up to
\* FanPos.
FanPositions == {-1, BoardSize} \cup {p \in Cells : p <= FanPos}
NextFan == Server(Conns, FanPositions, PlayIDs, FanCreates)
SpecFan == Init /\ [][NextFan]_vars

\* Server and front ends on one game id created FanCreates times: no create
\* meets an id in use.
NextFront ==
    Server(Conns, Positions, PlayIDs, FanCreates) \/ FrontEnd(Conns, PlayIDs, FanCreates)
SpecFront == Init /\ [][NextFront]_vars

\* The server on one game id created FanCreates times, with peers that go
\* away.
NextDrop ==
    \/ Server(Conns, Positions, PlayIDs, FanCreates)
    \/ \E c \in Conns : peerClose(c)
SpecDrop == Init /\ [][NextDrop]_vars

\* The server with one connection, and POST /game/join/{id} on every id.
NextJoin ==
    \/ Server(PlayConns, Positions, GameIDs, MaxCreates)
    \/ \E id \in GameIDs : handleJoinGame(id)
SpecJoin == Init /\ [][NextJoin]_vars

\* The server with every connection and game id, each message a Move with
\* any gameId field.
NextMsg ==
    \/ Server(Conns, Positions, GameIDs, MaxCreates)
    \/ \E c \in Conns, m \in Moves : handleMessage(c, m)
SpecMsg == Init /\ [][NextMsg]_vars

\* The server's steps that wait for no peer and no lock another handler
\* holds: each WriteJSON returns, makeMove runs to its return.
FairFan ==
    /\ SpecFan
    /\ \A c \in Conns :
        /\ WF_vars(makeMoveSet(c))
        /\ WF_vars(makeMoveEval(c))
        /\ WF_vars(broadcastSend(c))
        /\ WF_vars(makeMoveReturn(c))

\* The rule functions on every board: a Game that is not over, holding any
\* board with the cell Position empty, takes the move (Position, Symbol).
AllBoards == [Cells -> {"", "X", "O"}]
ProbeInputs ==
    {i \in [Board : AllBoards, Position : Cells, Symbol : Marks] : i.Board[i.Position] = ""}

InitRules ==
    /\ InitServer
    /\ probe \in ProbeInputs
    /\ verdict = NoVerdict

\* checkWin and checkDraw on the board as it is, then makeMove's assignments
\* and its evaluation.
applyRules ==
    /\ ~verdict.set
    /\ verdict' =
        [set |-> TRUE,
         win |-> checkWin(probe.Board),
         draw |-> checkDraw(probe.Board),
         res |-> evaluate(setCell([NewGame EXCEPT !.Board = probe.Board,
                                                  !.NextPlayer = probe.Symbol],
                                  probe.Position, probe.Symbol),
                          probe.Symbol)]
    /\ UNCHANGED <<build, games, heap, nalloc, connections, mu, pc, gid, game, mark,
                   move, bi, mt, sent, probe, closed, resp>>

NextRules == applyRules
SpecRules == InitRules /\ [][NextRules]_vars

\* ---- what the claims speak of
\* The cells of board b that hold a mark.
Filled(b) == {i \in Cells : b[i] # ""}
Full(b) == Filled(b) = Cells

\* Mark m holds a whole row, column or diagonal of the 3 x 3 board b.
LineOf(b, m) ==
    \/ \E r \in 0..2 : \A k \in 0..2 : b[3 * r + k] = m
    \/ \E k \in 0..2 : \A r \in 0..2 : b[3 * r + k] = m
    \/ \A k \in 0..2 : b[4 * k] = m
    \/ \A k \in 0..2 : b[2 + 2 * k] = m
HasLine(b) == \E m \in Marks : LineOf(b, m)

\* The Game the registry holds for connection c's gameID (0: none).
GameOf(c) == IF gid[c] = 0 THEN 0 ELSE games[gid[c]]

\* The move (p, s) on c's game is one the rules allow.
Legal(c, p, s) ==
    /\ GameOf(c) # 0
    /\ ~heap[GameOf(c)].GameOver
    /\ p \in Cells
    /\ heap[GameOf(c)].Board[p] = ""
    /\ s = heap[GameOf(c)].NextPlayer

\* c's handler is in makeMove with a move that was dropped.
Dropped(c) == pc[c] = "mm_return" /\ move[c] = NoMove

\* C1: makeMove accepts a move exactly when the game exists, is not over, the
\* position is a cell, the cell is empty and the symbol is nextPlayer; an
\* accepted move changes the board, and a dropped one returns with every
\* Game and every connection's messages as they were.
C1_MoveContract ==
    [][\A c \in Conns :
        /\ (pc[c] = "read" /\ mu' = c) =>
              \A p \in AllPositions, s \in Symbols :
                  makeMoveLock(c, p, s) =>
                      /\ (pc'[c] = "mm_set") <=> Legal(c, p, s)
                      /\ (pc'[c] # "mm_set") => Dropped(c)'
                      /\ heap' = heap /\ games' = games /\ sent' = sent
        /\ (Dropped(c) /\ pc'[c] # pc[c]) =>
              /\ pc'[c] = "read"
              /\ heap' = heap /\ games' = games /\ sent' = sent
        /\ (pc[c] = "mm_set" /\ pc'[c] # "mm_set") =>
              heap'[GameOf(c)].Board # heap[GameOf(c)].Board
      ]_vars

\* A move was dropped because the game is over.
C1_Witness ==
    \E c \in Conns :
        /\ Dropped(c)
        /\ GameOf(c) # 0
        /\ heap[GameOf(c)].GameOver
\* C2: an accepted move leaves nextPlayer at the other mark, the accepted
\* moves of a game go X, O, X, ... from X on the empty board, and the pair
\* (position, symbol) just accepted is one makeMove drops from then on.
C2_Alternation ==
    [][\A c \in Conns :
        (pc[c] = "mm_set" /\ pc'[c] = "mm_eval") =>
            LET g == GameOf(c)
                p == move[c].Position
                s == move[c].Symbol
            IN  /\ s \in Marks
                /\ heap'[g].NextPlayer \in Marks
                /\ heap'[g].NextPlayer # s
                /\ s = (IF Cardinality(Filled(heap[g].Board)) % 2 = 0 THEN "X" ELSE "O")
                /\ rejects(heap', g, p, s)
      ]_vars

\* "O" has just moved.
C2_Witness ==
    \E c \in Conns : pc[c] = "mm_eval" /\ move[c].Symbol = "O"

\* Every Game's board has the 9 cells 0..8, each "", "X" or "O".
BoardsOK ==
    \A o \in DOMAIN heap :
        /\ DOMAIN heap[o].Board = Cells
        /\ Cardinality(DOMAIN heap[o].Board) = BoardSize
        /\ \A i \in Cells : heap[o].Board[i] \in {"", "X", "O"}

C5_WinDetection ==
    verdict.set =>
        LET G == verdict.res.game IN
            /\ verdict.win <=> HasLine(probe.Board)
            /\ (G.Winner # "") <=> HasLine(G.Board)
            /\ (G.Winner # "") => (G.GameOver /\ G.Winner = probe.Symbol)
            /\ (G.Winner # "" /\ ~HasLine(probe.Board)) => LineOf(G.Board, G.Winner)

\* "O" completes the diagonal 2, 4, 6 on a board that had no line.
C5_Witness ==
    /\ verdict.set
    /\ ~HasLine(probe.Board)
    /\ verdict.res.game.Winner = "O"
    /\ \A k \in 0..2 : verdict.res.game.Board[2 + 2 * k] = "O"

\* No makeMove stands between its assignments to Game o and its evaluation.
Settled(o) == ~\E c \in Conns : pc[c] = "mm_eval" /\ GameOf(c) = o

\* C6: a Game is drawn (over, no winner) exactly when its board is full and
\* no line is held; on a full board with a line the Game is won by the mark
\* that moved last and holds the line.
C6_Draw ==
    \A o \in DOMAIN heap :
        Settled(o) =>
            LET G == heap[o] IN
                /\ (G.GameOver /\ G.Winner = "") <=> (Full(G.Board) /\ ~HasLine(G.Board))
                /\ (Full(G.Board) /\ HasLine(G.Board)) =>
                      /\ G.GameOver
                      /\ G.Winner \in Marks
                      /\ G.Winner # G.NextPlayer
                      /\ LineOf(G.Board, G.Winner)

\* A drawn game, shown to its connection as GAME_OVER with no winner.
C6_Witness ==
    \E c \in Conns :
        /\ GameOf(c) # 0
        /\ Settled(GameOf(c))
        /\ Full(heap[GameOf(c)].Board)
        /\ heap[GameOf(c)].GameOver
        /\ heap[GameOf(c)].Winner = ""
        /\ sent[c].last.type = "GAME_OVER"
        /\ sent[c].last.winner = ""

\* The Games SpecFan allocates.
FanObjects == 1..FanCreates

\* Connection c's accepted move has just ended Game o: makeMove has set
\* GameOver and stands at the head of broadcastGameState.
Ending(c, o) ==
    /\ GameOf(c) = o
    /\ o \in DOMAIN heap
    /\ heap[o].GameOver
    /\ \/ pc[c] = "bcast" /\ bi[c] = 1
       \/ pc[c] = "bc_rlock"

Attached(d, id) == \E i \in 1..Len(connections[id]) : connections[id][i] = d

\* The last message written to d is GAME_OVER with the final state of Game o:
\* the winner is the mark that moved last and holds a line, or none on a
\* board with no line.
GotGameOver(d, o) ==
    /\ o \in DOMAIN heap
    /\ sent[d].last.type = "GAME_OVER"
    /\ sent[d].last.board = heap[o].Board
    /\ sent[d].last.gameOver
    /\ IF HasLine(heap[o].Board)
       THEN /\ sent[d].last.winner \in Marks
            /\ sent[d].last.winner # heap[o].NextPlayer
            /\ LineOf(heap[o].Board, sent[d].last.winner)
       ELSE sent[d].last.winner = ""

\* C7: when an accepted move ends a game, every connection attached to the
\* game at that moment is in the end written GAME_OVER with the final board
\* and the winner.
C7_GameOverBroadcast ==
    \A d \in Conns, o \in FanObjects :
        (\E c \in Conns : Ending(c, o) /\ Attached(d, gid[c])) ~> GotGameOver(d, o)

\* After X@0, O@3, X@1, O@4, X@2 both connections hold GAME_OVER, winner "X".
C7_Witness ==
    /\ \A d \in Conns :
        /\ sent[d].last.type = "GAME_OVER"
        /\ sent[d].last.winner = "X"
        /\ sent[d].last.board =
              [i \in Cells |-> IF i \in {0, 1, 2} THEN "X" ELSE IF i \in {3, 4} THEN "O" ELSE ""]

\* C8: the id a create returns is not already a key of the registry, so no
\* create replaces the Game of an existing id.
C8_FreshId ==
    [][\A id \in GameIDs :
            (nalloc' = nalloc + 1 /\ games'[id] = nalloc') => games[id] = 0
      ]_vars

\* C9: no two connections attached to the same session hold the same mark.
C9_DistinctMarks ==
    \A id \in GameIDs :
        \A c, d \in Conns :
            (c # d /\ Attached(c, id) /\ Attached(d, id) /\ mark[c] # "" /\ mark[d] # "")
                => mark[c] # mark[d]

\* C10: a connection whose gameID the registry does not hold is not in a
\* participant set, has been written no message and is not in its receive
\* loop. (The registry never drops an id, so an id it does not hold now was
\* not held when the connection asked for it.)
C10_UnknownRejected ==
    \A c \in Conns :
        (gid[c] # 0 /\ games[gid[c]] = 0) =>
            /\ ~Attached(c, gid[c])
            /\ sent[c] = NoSent
            /\ pc[c] \in {"idle", "ws_open"}

\* Connection d holds the update of the move c's makeMove has accepted: the
\* Game as makeMove leaves it, typed GAME_OVER when the move ended the game
\* and MOVE otherwise.
Updated(c, d) ==
    /\ pc[c] \in {"bcast", "mm_return"}
    /\ move[c] # NoMove
    /\ sent[d].last = broadcastMsg(GameOf(c), mt[c])
    /\ sent[d].last.type = (IF heap[GameOf(c)].GameOver THEN "GAME_OVER" ELSE "MOVE")

\* C11: every connection attached to a game is written one update for each
\* accepted move, before the next move is accepted, carrying the board and
\* nextPlayer the game holds right after the move and typed GAME_OVER exactly
\* when the move ended the game.
C11_SameUpdates ==
    \A c, d \in Conns :
        (pc[c] = "mm_eval" /\ Attached(d, gid[c])) ~> Updated(c, d)

\* C12: when a write of the broadcast fails, the loop goes on to the next
\* connection of the game and the failing connection leaves the participant
\* set.
C12_FailureDetaches ==
    [][\A c \in Conns :
        (/\ pc[c] = "bcast"
         /\ (bi'[c] # bi[c] \/ pc'[c] # "bcast")
         /\ connections[gid[c]][bi[c]] \in closed) =>
            /\ bi[c] < Len(connections[gid[c]]) => (pc'[c] = "bcast" /\ bi'[c] = bi[c] + 1)
            /\ \A i \in 1..Len(connections'[gid[c]]) :
                    connections'[gid[c]][i] # connections[gid[c]][bi[c]]
      ]_vars

\* Connection c is in no participant set.
Detached(c) ==
    \A id \in GameIDs : \A i \in 1..Len(connections[id]) : connections[id][i] # c

C14_SnapshotFirst ==
    \A c \in Conns : pc[c] = "ws_snap" => sent[c] = NoSent

\* C15: no handler writes to a connection while it holds mu: the handler
\* that stands in broadcastGameState's loop is not the holder of mu.Lock.
C15_NoSendUnderLock ==
    \A c \in Conns : pc[c] = "bcast" => mu # c

\* Connection c's handler is inside makeMove, between mu.Lock and the
\* deferred mu.Unlock.
InMakeMove(c) == pc[c] \in {"mm_set", "mm_eval", "bcast", "bc_rlock", "mm_return"}

\* C16: while a handler is inside makeMove on one game, a MOVE that the
\* handler of a connection of another game has read can enter makeMove.
C16_NoCrossGameWait ==
    \A c, d \in Conns :
        (/\ c # d
         /\ InMakeMove(c)
         /\ pc[d] = "read"
         /\ gid[c] # gid[d]
         /\ games[gid[c]] # 0
         /\ games[gid[d]] # 0)
            => ENABLED makeMoveLock(d, 0, "X")

\* C17: the Game a create stores under the id it returns has 9 empty cells,
\* nextPlayer "X", gameOver false and no winner, and the participant set of
\* that id is empty.
C17_FreshSession ==
    [][\A id \in GameIDs :
        (nalloc' = nalloc + 1 /\ games'[id] = nalloc') =>
            /\ DOMAIN heap'[nalloc'].Board = Cells
            /\ Cardinality(DOMAIN heap'[nalloc'].Board) = BoardSize
            /\ \A i \in Cells : heap'[nalloc'].Board[i] = ""
            /\ heap'[nalloc'].NextPlayer = "X"
            /\ ~heap'[nalloc'].GameOver
            /\ heap'[nalloc'].Winner = ""
            /\ connections'[id] = << >>
      ]_vars

\* C18: handleJoinGame answers 200 when the id is a key of the registry and
\* 404 when it is not, and the registry, the Games and the participant sets
\* are the same after the answer.
C18_JoinAnswer ==
    [][resp' # resp =>
        /\ resp'.code \in {StatusOK, StatusNotFound}
        /\ (resp'.code = StatusOK) <=> (games[resp'.id] # 0)
        /\ (resp'.code = StatusNotFound) <=> (games[resp'.id] = 0)
        /\ games' = games /\ heap' = heap /\ nalloc' = nalloc
        /\ connections' = connections /\ sent' = sent /\ pc' = pc
      ]_vars

\* 404 for an id the registry does not hold, while it holds another id whose
\* game has a participant and a mark on its board.
C18_Witness ==
    /\ resp.code = StatusNotFound
    /\ games[resp.id] = 0
    /\ \E id \in GameIDs :
        /\ games[id] # 0
        /\ Len(connections[id]) > 0
        /\ heap[games[id]].Board # EmptyBoard

\* C19: a handler that stands at broadcastGameState's mu.RLock can take it:
\* no handler waits there for the lock its own makeMove holds, so every
\* makeMove goes on to its deferred mu.Unlock.
C19_MakeMoveReturns ==
    \A c \in Conns : pc[c] = "bc_rlock" => RLockReady

\* C20: at most one handler is inside makeMove, and it is the one that holds
\* mu; a board changes only in the assignments of that handler, by one cell
\* that was empty; and once a move is accepted, any move for the same cell
\* or with the same symbol is one makeMove drops.
C20_MutualExclusion ==
    [][/\ \A c, d \in Conns : (InMakeMove(c) /\ InMakeMove(d)) => c = d
       /\ \A c \in Conns : InMakeMove(c) => mu = c
       /\ \A c, d \in Conns : (InMakeMove(c)' /\ InMakeMove(d)') => c = d
       /\ \A o \in DOMAIN heap \cap DOMAIN heap' :
            heap'[o].Board # heap[o].Board =>
                /\ \E c \in Conns :
                    /\ mu = c /\ mu' = c
                    /\ pc[c] = "mm_set" /\ pc'[c] = "mm_eval"
                    /\ GameOf(c) = o
                    /\ \A q \in AllPositions, x \in Symbols :
                        (q = move[c].Position \/ x = move[c].Symbol)
                            => rejects(heap', o, q, x)
                /\ Cardinality({i \in Cells : heap'[o].Board[i] # heap[o].Board[i]}) = 1
                /\ \A i \in Cells :
                    heap'[o].Board[i] # heap[o].Board[i] => heap[o].Board[i] = ""
      ]_vars

\* Two connections on one game: the move of the first was accepted and
\* broadcast, the move of the second, made after it, was dropped.
C20_Witness ==
    \E c, d \in Conns :
        /\ c # d
        /\ gid[c] = gid[d]
        /\ pc[c] = "read"
        /\ Dropped(d)
        /\ GameOf(d) # 0
        /\ Cardinality(Filled(heap[GameOf(d)].Board)) = 1
        /\ sent[c].last.type = "MOVE"
        /\ sent[d].last.type = "MOVE"

\* C21: outside makeMove's own update, in every Game at most one mark holds
\* a line, gameOver is TRUE exactly when a line is held or the board is
\* full, and winner is the mark that holds a line, or empty when none does.
C21_StatusConsistent ==
    \A o \in DOMAIN heap :
        Settled(o) =>
            LET G == heap[o] IN
                /\ ~(LineOf(G.Board, "X") /\ LineOf(G.Board, "O"))
                /\ G.GameOver <=> (HasLine(G.Board) \/ Full(G.Board))
                /\ HasLine(G.Board) => (G.Winner \in Marks /\ LineOf(G.Board, G.Winner))
                /\ ~HasLine(G.Board) => G.Winner = ""

\* "X" takes the last empty cell and completes a line with it: the game is
\* over, won by "X", and its connection reads on.
C21_Witness ==
    \E c \in Conns :
        /\ pc[c] = "read"
        /\ GameOf(c) # 0
        /\ Full(heap[GameOf(c)].Board)
        /\ HasLine(heap[GameOf(c)].Board)
        /\ heap[GameOf(c)].GameOver
        /\ heap[GameOf(c)].Winner = "X"

\* The number of cells of board b that hold mark m.
Count(b, m) == Cardinality({i \in Cells : b[i] = m})

\* C22: in every Game the number of "X" cells less the number of "O" cells
\* is 0 or 1, and nextPlayer is "X" exactly when the two are equal, over
\* games included.
C22_TurnParity ==
    \A o \in DOMAIN heap :
        LET G == heap[o]
            x == Count(G.Board, "X")
            y == Count(G.Board, "O")
        IN  /\ x - y \in {0, 1}
            /\ G.NextPlayer \in Marks
            /\ (G.NextPlayer = "X") <=> (x = y)

\* A game "O" has won: three cells each, and nextPlayer is "X".
C22_Witness ==
    \E o \in DOMAIN heap :
        /\ heap[o].GameOver
        /\ heap[o].Winner = "O"
        /\ heap[o].NextPlayer = "X"
        /\ Count(heap[o].Board, "X") = 3
        /\ Count(heap[o].Board, "O") = 3

\* The handlers that stand at a conn.WriteJSON on connection c: c's own, at
\* the snapshot, and the one whose broadcast loop has come to c.
Writers(c) ==
    {d \in Conns :
        \/ d = c /\ pc[d] = "ws_snap"
        \/ pc[d] = "bcast" /\ connections[gid[d]][bi[d]] = c}

\* C23: at most one handler stands at a write to a given connection: the
\* snapshot write of the connection's own handler and a broadcast write of
\* another handler to it are never both under way.
C23_OneWriter ==
    \A c \in Conns : Cardinality(Writers(c)) <= 1

\* Connection c's handler takes a step of its handling of a message: the
\* read, the dispatch, makeMove and its broadcast.
Handling(c) ==
    /\ pc[c] \in {"read", "dispatch", "mm_set", "mm_eval", "bcast", "mm_return"}
    /\ (pc'[c] # pc[c] \/ bi'[c] # bi[c])

\* C24: a step of the handling of a message on connection c, whatever the
\* message's type, position, symbol and gameId, leaves the registry entry,
\* the Game and the participant set of every game id c is not attached to
\* as they were, and writes nothing to the connections of those ids.
C24_OnlyOwnGame ==
    [][\A c \in Conns :
        Handling(c) =>
            \A id \in GameIDs :
                ~Attached(c, id) =>
                    /\ games'[id] = games[id]
                    /\ games[id] # 0 => heap'[games[id]] = heap[games[id]]
                    /\ connections'[id] = connections[id]
                    /\ \A d \in Conns : Attached(d, id) => sent'[d] = sent[d]
      ]_vars

\* Two games, a connection on each: the move made on the one was accepted
\* and broadcast to its connection; the other game is empty and its
\* connection holds nothing but its snapshot.
C24_Witness ==
    \E c, d \in Conns :
        /\ pc[c] = "read" /\ pc[d] = "read"
        /\ gid[c] # gid[d]
        /\ Attached(c, gid[c]) /\ Attached(d, gid[d])
        /\ GameOf(c) # 0 /\ GameOf(d) # 0
        /\ heap[GameOf(c)].Board # EmptyBoard
        /\ sent[c].last.type = "MOVE"
        /\ heap[GameOf(d)] = NewGame
        /\ sent[d] = [n |-> 1, last |-> snapshotMsg(GameOf(d))]

====
